---------------------------- MODULE Spec2Model ----------------------------
(***************************************************************************)
(* Model of scripts/post-release-announcement.py (pvetui).                 *)
(*                                                                         *)
(* A Python str is modelled as a sequence of Unicode code points           *)
(* (naturals), so that len() is Len and the UTF-8 encoding is computed.    *)
(* Four specifications share the module:                                   *)
(*   Spec          main(), one step per statement group of the script      *)
(*   SpecMsg       build_announcement_message applied to drawn inputs      *)
(*   SpecFacets    build_bluesky_facets applied to drawn inputs            *)
(*   SpecChangelog extract_changelog_highlights applied to drawn inputs    *)
(***************************************************************************)
EXTENDS Integers, Sequences, FiniteSets, TLC

VARIABLES
    fn,         \* pure-function specifications: the function under call
    in,         \* its arguments
    out,        \* <<>> before the call, <<return value>> after it
    pc,         \* main: position in main()
    args,       \* main: parsed command line (argparse namespace)
    environ,    \* main: os.environ
    changelog,  \* main: the changelog file, [readable, content]
    tag,        \* main: local tag
    release_url,\* main: local release_url
    highlights, \* main: local highlights
    ai,         \* main: outcome of summarize_highlights_with_ai
    message,    \* main: local message
    posted,     \* main: local posted
    calls,      \* main: network requests performed so far, in order
    stderr,     \* main: lines printed to standard error
    stdout,     \* main: lines printed to standard output
    exit        \* main: how the process ended

fnVars   == <<fn, in, out>>
mainVars == <<pc, args, environ, changelog, tag, release_url, highlights,
              ai, message, posted, calls, stderr, stdout, exit>>
vars     == <<fn, in, out, pc, args, environ, changelog, tag, release_url,
              highlights, ai, message, posted, calls, stderr, stdout, exit>>

----------------------------------------------------------------------------
(* Python str primitives on code-point sequences.                          *)

Min(a, b) == IF a < b THEN a ELSE b
Max(a, b) == IF a > b THEN a ELSE b

\* s[:n] for n >= 0
Take(s, n) == SubSeq(s, 1, Min(n, Len(s)))

\* s[n:] for n >= 0
Drop(s, n) == SubSeq(s, n + 1, Len(s))

\* s.rstrip(chars)
RECURSIVE RStripSet(_, _)
RStripSet(s, cs) ==
    IF s # <<>> /\ s[Len(s)] \in cs THEN RStripSet(Take(s, Len(s) - 1), cs) ELSE s

\* s.lstrip(chars)
RECURSIVE LStripSet(_, _)
LStripSet(s, cs) ==
    IF s # <<>> /\ s[1] \in cs THEN LStripSet(Drop(s, 1), cs) ELSE s

\* The code points below U+00A1 for which str.isspace() is true.
Whitespace == {9, 10, 11, 12, 13, 28, 29, 30, 31, 32, 133, 160}

\* s.rstrip()
RStrip(s) == RStripSet(s, Whitespace)

\* s.strip()
Strip(s) == LStripSet(RStripSet(s, Whitespace), Whitespace)

\* s.startswith(p)
StartsWith(s, p) == Len(p) <= Len(s) /\ SubSeq(s, 1, Len(p)) = p

\* s occurs in t at 0-based index i
OccursAt(t, s, i) == i + Len(s) <= Len(t) /\ SubSeq(t, i + 1, i + Len(s)) = s

\* the least member of a non-empty set of integers
Least(S) == CHOOSE x \in S : \A y \in S : x <= y

\* t.find(s): lowest 0-based index of s in t, or -1
Find(t, s) ==
    LET at == { i \in 0..(Len(t) - Len(s)) : OccursAt(t, s, i) } IN
    IF at = {} THEN -1 ELSE Least(at)

\* the end (0-based, exclusive) of the longest run from i of code points
\* that are in cs (stop = FALSE) or not in cs (stop = TRUE)
RunEnd(s, i, cs, stop) ==
    LET ends == { j \in i..(Len(s) - 1) : (s[j + 1] \in cs) = stop } IN
    IF ends = {} THEN Max(i, Len(s)) ELSE Least(ends)

\* n copies of code point c
Rep(c, n) == [i \in 1..n |-> c]

\* sep.join(parts)
RECURSIVE Join(_, _)
Join(sep, parts) ==
    IF parts = <<>> THEN <<>>
    ELSE IF Len(parts) = 1 THEN parts[1]
    ELSE parts[1] \o sep \o Join(sep, Tail(parts))

----------------------------------------------------------------------------
(* build_announcement_message                                              *)

IsOut            == <<32, 105, 115, 32, 111, 117, 116, 33>>  \* " is out!"
FullNotes        == <<70, 117, 108, 108, 32, 110, 111, 116, 101, 115, 58, 32>>
                                                    \* "Full notes: "
Hashtags         == <<32, 35, 112, 114, 111, 120, 109, 111, 120, 32, 35, 108,
                      105, 110, 117, 120, 32, 35, 104, 111, 109, 101, 108, 97,
                      98>>                          \* " #proxmox #linux #homelab"
HighlightsHeader == <<10, 72, 105, 103, 104, 108, 105, 103, 104, 116, 115, 58,
                      10>>                          \* "\nHighlights:\n"
Bullet           == <<8226, 32>>                    \* "• "
Ellipsis         == <<46, 46, 46>>                  \* "..."

\* base = f"{project} {tag} is out!"
Base(project, t) == project \o <<32>> \o t \o IsOut

\* tail = f"Full notes: {release_url} #proxmox #linux #homelab"
MsgTail(url) == FullNotes \o url \o Hashtags

\* the body of the compaction loop: h.strip(), cut to 92 with "..."
CompactHighlight(h) ==
    LET s == Strip(h) IN
    IF Len(s) > 92 THEN RStrip(Take(s, 89)) \o Ellipsis ELSE s

Compact(hs) == [i \in 1..Len(hs) |-> CompactHighlight(hs[i])]

\* f"{base}\nHighlights:\n{bullet_lines}\n{tail}" for compact[:count]
Candidate(base, tail, compact, count) ==
    base \o HighlightsHeader
         \o Join(<<10>>, [i \in 1..count |-> Bullet \o compact[i]])
         \o <<10>> \o tail

\* Faulty variant of FitLoop: the loop runs upwards, range(1, len(compact) + 1)
RECURSIVE FitLoopUp(_, _, _, _, _)
FitLoopUp(base, tail, compact, count, max_len) ==
    IF count > Len(compact) THEN 0
    ELSE IF Len(Candidate(base, tail, compact, count)) <= max_len THEN count
    ELSE FitLoopUp(base, tail, compact, count + 1, max_len)

FitLoopFromOne(base, tail, compact, count, max_len) ==
    FitLoopUp(base, tail, compact, Min(1, count), max_len)

\* for count in range(len(compact), 0, -1): the first count whose candidate
\* fits, or 0 when the loop ends without returning
RECURSIVE FitLoop(_, _, _, _, _)
FitLoop(base, tail, compact, count, max_len) ==
    IF count <= 0 THEN 0
    ELSE IF Len(Candidate(base, tail, compact, count)) <= max_len THEN count
    ELSE FitLoop(base, tail, compact, count - 1, max_len)

\* short = compact[0], cut to 56 with "..."
ShortHighlight(c) ==
    IF Len(c) > 56 THEN RStrip(Take(c, 53)) \o Ellipsis ELSE c

\* the last resort: truncate the base, keep the tail
TruncatedBase(base, overflow) ==
    IF overflow > 0 /\ Len(base) > overflow + 3
    THEN RStrip(Take(base, Len(base) - overflow - 3)) \o Ellipsis
    ELSE base

\* lines 319-330: the message without highlights
BareMessage(base, tail, max_len) ==
    LET candidate == base \o <<32>> \o tail IN
    IF Len(candidate) <= max_len THEN candidate
    ELSE TruncatedBase(base, Len(candidate) - max_len) \o <<32>> \o tail

build_announcement_message(project, t, url, hs, max_len) ==
    LET base    == Base(project, t)
        tail    == MsgTail(url)
        compact == Compact(hs)
        count   == FitLoop(base, tail, compact, Len(compact), max_len)
        retry   == base \o HighlightsHeader \o Bullet
                        \o ShortHighlight(compact[1]) \o <<10>> \o tail
    IN  IF hs # <<>> /\ count > 0 THEN Candidate(base, tail, compact, count)
        ELSE IF hs # <<>> /\ Len(retry) <= max_len THEN retry
        ELSE BareMessage(base, tail, max_len)

----------------------------------------------------------------------------
(* build_bluesky_facets                                                    *)

\* the UTF-8 encoding of one code point (str.encode("utf-8"))
Utf8Char(cp) ==
    IF cp < 128 THEN <<cp>>
    ELSE IF cp < 2048 THEN <<192 + (cp \div 64), 128 + (cp % 64)>>
    ELSE IF cp < 65536
    THEN <<224 + (cp \div 4096), 128 + ((cp \div 64) % 64), 128 + (cp % 64)>>
    ELSE <<240 + (cp \div 262144), 128 + ((cp \div 4096) % 64),
           128 + ((cp \div 64) % 64), 128 + (cp % 64)>>

\* s.encode("utf-8"): the encodings of the code points, concatenated
RECURSIVE Utf8Encode(_)
Utf8Encode(s) ==
    IF s = <<>> THEN <<>>
    ELSE IF Len(s) = 1 THEN Utf8Char(s[1])
    ELSE Utf8Encode(SubSeq(s, 1, Len(s) \div 2))
            \o Utf8Encode(SubSeq(s, Len(s) \div 2 + 1, Len(s)))

\* Faulty variant of ByteLen: offsets counted in characters
CharLen(s) == Len(s)

\* len(s.encode("utf-8"))
ByteLen(s) == Len(Utf8Encode(s))

\* [A-Za-z0-9_]
WordChars == (65..90) \cup (97..122) \cup (48..57) \cup {95}

\* re.finditer(r"#[A-Za-z0-9_]+", message) from position i: the matches as
\* <<start, end>> pairs, leftmost first, each as long as possible; h is the
\* next "#", e the end of the run of [A-Za-z0-9_] after it
RECURSIVE HashtagMatches(_, _)
HashtagMatches(m, i) ==
    LET h == RunEnd(m, i, {35}, TRUE)
        e == RunEnd(m, h + 1, WordChars, FALSE)
    IN  IF h >= Len(m) THEN <<>>
        ELSE IF e > h + 1 THEN <<<<h, e>>>> \o HashtagMatches(m, e)
        ELSE HashtagMatches(m, h + 1)

\* lines 191-203: the link facet, if the URL is non-empty and occurs
LinkFacets(msg, url) ==
    LET index == Find(msg, url) IN
    IF url # <<>> /\ index >= 0
    THEN << [byteStart |-> ByteLen(Take(msg, index)),
             byteEnd   |-> ByteLen(Take(msg, index)) + ByteLen(url),
             type      |-> "link",
             value     |-> url] >>
    ELSE <<>>

\* lines 205-216: one tag facet per hashtag match
TagFacets(msg) ==
    LET ms == HashtagMatches(msg, 0) IN
    [k \in 1..Len(ms) |->
        [byteStart |-> ByteLen(Take(msg, ms[k][1])),
         byteEnd   |-> ByteLen(Take(msg, ms[k][2])),
         type      |-> "tag",
         value     |-> SubSeq(msg, ms[k][1] + 2, ms[k][2])]]

\* "facets or None": the empty sequence stands for None
build_bluesky_facets(msg, url) ==
    LinkFacets(msg, url) \o TagFacets(msg)

----------------------------------------------------------------------------
(* extract_changelog_highlights                                            *)

\* re.sub(open ([^c]+) close, r"\1", s) for a closing string that starts with
\* c: leftmost matches, the search resuming after each
RECURSIVE SubDelimited(_, _, _, _)
SubDelimited(s, open, c, close) ==
    LET p == Find(s, open)                          \* the next opening
        e == RunEnd(s, p + Len(open), {c}, TRUE)    \* the end of [^c]+
    IN  IF p < 0 THEN s
        ELSE IF e > p + Len(open) /\ OccursAt(s, close, e)
        THEN Take(s, p) \o SubSeq(s, p + Len(open) + 1, e)
                \o SubDelimited(Drop(s, e + Len(close)), open, c, close)
        ELSE Take(s, p + 1) \o SubDelimited(Drop(s, p + 1), open, c, close)

\* re.sub(r"\[([^\]]+)\]\([^)]+\)", r"\1", s)
RECURSIVE SubLinks(_)
SubLinks(s) ==
    LET p == Find(s, <<91>>)                  \* the next "["
        e == RunEnd(s, p + 1, {93}, TRUE)     \* the "]" after the text
        f == RunEnd(s, e + 2, {41}, TRUE)     \* the ")" after the target
    IN  IF p < 0 THEN s
        ELSE IF /\ e > p + 1 /\ OccursAt(s, <<93, 40>>, e)
                /\ f > e + 2 /\ OccursAt(s, <<41>>, f)
        THEN Take(s, p) \o SubSeq(s, p + 2, e) \o SubLinks(Drop(s, f + 1))
        ELSE Take(s, p + 1) \o SubLinks(Drop(s, p + 1))

\* re.sub(r"\s+", " ", s)
\* (each whitespace character that starts a run becomes a blank, the
\* others of the run go)
CollapseSpaces(s) ==
    LET marked == [i \in 1..Len(s) |->
                     IF s[i] \notin Whitespace THEN s[i]
                     ELSE IF i > 1 /\ s[i - 1] \in Whitespace THEN -1
                     ELSE 32]
    IN  SelectSeq(marked, LAMBDA x : x # -1)

\* lines 276-279: bold, code and link syntax removed, whitespace collapsed
CleanMarkdown(text) ==
    Strip(CollapseSpaces(SubLinks(
        SubDelimited(SubDelimited(text, <<42, 42>>, 42, <<42, 42>>),
                     <<96>>, 96, <<96>>))))

\* the line boundaries of str.splitlines()
LineBreaks == {10, 11, 12, 13, 28, 29, 30, 133, 8232, 8233}

\* s.splitlines()
RECURSIVE SplitLines(_)
SplitLines(s) ==
    IF s = <<>> THEN <<>>
    ELSE LET e == RunEnd(s, 0, LineBreaks, TRUE)
             n == IF OccursAt(s, <<13, 10>>, e) THEN 2 ELSE 1
         IN  <<Take(s, e)>> \o SplitLines(Drop(s, e + n))

\* version = tag[1:] if tag.startswith("v") else tag
VersionOf(t) == IF StartsWith(t, <<118>>) THEN Drop(t, 1) ELSE t

\* ^##\s+\[ under (?m) at 0-based position p: the position after the "[",
\* or -1 when it does not match there
HeadingOpenEnd(c, p) ==
    LET e == RunEnd(c, p + 2, Whitespace, FALSE) IN
    IF /\ (p = 0 \/ c[p] = 10)
       /\ OccursAt(c, <<35, 35>>, p)
       /\ e > p + 2
       /\ OccursAt(c, <<91>>, e)
    THEN e + 1 ELSE -1

\* ^##\s+\[version\][^\n]*\n at p: the position after the newline, or -1
VersionHeadingEnd(c, p, version) ==
    LET e == HeadingOpenEnd(c, p)
        q == RunEnd(c, e + Len(version) + 1, {10}, TRUE)
    IN  IF e >= 0 /\ OccursAt(c, version \o <<93>>, e) /\ q < Len(c)
        THEN q + 1 ELSE -1

\* section_pattern.search(content): the start of group 1 for the leftmost
\* match, or -1 when there is none
SearchHeading(c, p, version) ==
    LET at == { r \in p..Len(c) : VersionHeadingEnd(c, r, version) >= 0 } IN
    IF at = {} THEN -1 ELSE VersionHeadingEnd(c, Least(at), version)

\* (.*?)(?=^##\s+\[|\Z) from q: the end of group 1
BodyEnd(c, q) ==
    LET at == { r \in q..(Len(c) - 1) : HeadingOpenEnd(c, r) >= 0 } IN
    IF at = {} THEN Max(q, Len(c)) ELSE Least(at)

\* lines 269-283: the loop over the lines of the section
RECURSIVE BulletLoop(_, _, _, _)
BulletLoop(lines, i, acc, max_items) ==
    IF i > Len(lines) THEN acc
    ELSE LET line == Strip(lines[i])
             text == Strip(Drop(line, 2))
             acc2 == IF CleanMarkdown(text) # <<>>
                     THEN Append(acc, CleanMarkdown(text)) ELSE acc
         IN  IF ~StartsWith(line, <<45, 32>>) \/ text = <<>>
             THEN BulletLoop(lines, i + 1, acc, max_items)
             ELSE IF Len(acc2) >= max_items THEN acc2
             ELSE BulletLoop(lines, i + 1, acc2, max_items)

\* file: [readable |-> BOOLEAN, content |-> the text open().read() returns]
extract_changelog_highlights(file, t, max_items) ==
    LET version == VersionOf(t)
        start   == SearchHeading(file.content, 0, version)
        body    == SubSeq(file.content, start + 1, BodyEnd(file.content, start))
    IN  IF version = <<>> \/ ~file.readable \/ start < 0 THEN <<>>
        ELSE BulletLoop(SplitLines(body), 1, <<>>, max_items)

----------------------------------------------------------------------------
(* summarize_highlights_with_ai                                            *)

\* str.lower() on the ASCII letters
Lower(s) == [i \in 1..Len(s) |-> IF s[i] \in 65..90 THEN s[i] + 32 ELSE s[i]]

\* s.replace(a, b) for single characters
ReplaceChar(s, a, b) == [i \in 1..Len(s) |-> IF s[i] = a THEN b ELSE s[i]]

\* {"1", "true", "yes", "on"}
TruthyWords == { <<49>>, <<116, 114, 117, 101>>, <<121, 101, 115>>, <<111, 110>> }

\* ai_summary_enabled() and ai_debug_enabled()
ai_summary_enabled(e) == Lower(Strip(e.ANNOUNCE_AI_ENABLED)) \in TruthyWords
ai_debug_enabled(e)   == Lower(Strip(e.ANNOUNCE_AI_DEBUG)) \in TruthyWords

(* A parsed JSON value is [t |-> type, v |-> payload]: "null", "bool", "num",  *)
(* "str" (code points), "list" (sequence of values), "dict" (record of values, *)
(* <<>> for {}).                                                             *)
JNull    == [t |-> "null", v |-> <<>>]
JNum(n)  == [t |-> "num",  v |-> n]
JStr(x)  == [t |-> "str",  v |-> x]
JList(x) == [t |-> "list", v |-> x]
JDict(x) == [t |-> "dict", v |-> x]

\* Python truth value of a parsed JSON value
Truthy(j) ==
    CASE j.t = "null" -> FALSE
      [] j.t = "bool" -> j.v
      [] j.t = "num"  -> j.v # 0
      [] j.t = "dict" -> DOMAIN j.v # {}
      [] OTHER        -> j.v # <<>>

\* d.get(key) on a dict
Get(d, key) == IF key \in DOMAIN d.v THEN d.v[key] ELSE JNull

\* x or default
OrElse(x, default) == IF Truthy(x) THEN x ELSE default

\* lines 137-143: the content made one plain line of at most max_chars
TidySummary(text, max_chars) ==
    LET a == Strip(ReplaceChar(ReplaceChar(text, 10, 32), 13, 32))
        b == CollapseSpaces(a)
        c == SubDelimited(b, <<96>>, 96, <<96>>)
        d == SubDelimited(c, <<42, 42>>, 42, <<42, 42>>)
        e == LStripSet(RStripSet(d, {32, 34, 39}), {32, 34, 39})
    IN  IF Len(e) > max_chars
        THEN RStrip(Take(e, max_chars - 3)) \o Ellipsis ELSE e

Returned(text, reason) ==
    [outcome |-> "returned", text |-> text, reason |-> reason]
Raised(exception) ==
    [outcome |-> "raised", text |-> <<>>, reason |-> exception]

\* the three ANNOUNCE_AI_* settings of lines 66-69 are all non-empty
AiConfigured(e) ==
    /\ Strip(e.ANNOUNCE_AI_BASE_URL) # <<>>
    /\ Strip(e.ANNOUNCE_AI_MODEL) # <<>>
    /\ Strip(e.ANNOUNCE_AI_API_KEY) # <<>>

\* lines 63-73: the returns before any request
SummarizeEarly(e, hs) ==
    IF hs = <<>> THEN Returned(<<>>, "no highlights available")
    ELSE Returned(<<>>, "missing ANNOUNCE_AI_BASE_URL / ANNOUNCE_AI_MODEL / ANNOUNCE_AI_API_KEY")

\* lines 124-144: the response body, once read and decoded
SummarizeBody(body, max_chars) ==
    IF body.t = "notjson" THEN Returned(<<>>, "AI response was not valid JSON")
    ELSE IF body.t # "dict" THEN Raised("AttributeError: parsed.get")
    ELSE LET choices == OrElse(Get(body, "choices"), JList(<<>>)) IN
    IF ~Truthy(choices) THEN Returned(<<>>, "AI response had no choices")
    ELSE IF choices.t = "dict" THEN Raised("KeyError: choices[0]")
    ELSE IF choices.t \in {"num", "bool"} THEN Raised("TypeError: choices[0]")
    ELSE LET first == IF choices.t = "str" THEN JStr(<<choices.v[1]>>)
                      ELSE choices.v[1] IN
    IF first.t # "dict" THEN Raised("AttributeError: choices[0].get")
    ELSE LET msg == OrElse(Get(first, "message"), JDict(<<>>)) IN
    IF msg.t # "dict" THEN Raised("AttributeError: message.get")
    ELSE LET content == OrElse(Get(msg, "content"), JStr(<<>>)) IN
    IF content.t # "str" THEN Raised("AttributeError: content.strip")
    ELSE IF Strip(content.v) = <<>>
    THEN Returned(<<>>, "AI response content was empty")
    ELSE Returned(TidySummary(Strip(content.v), max_chars), "")

\* lines 105-144: what the function does with the outcome of urlopen();
\* resp.kind is "ok" (a body was read), "undecodable" (the body is not
\* UTF-8), "HTTPError", "URLError", "TimeoutError", or "IncompleteRead"
\* (resp.read() failed with an exception that is none of the three caught)
SummarizeResponse(resp, max_chars) ==
    CASE resp.kind = "HTTPError"      -> Returned(<<>>, "AI HTTP error")
      [] resp.kind = "URLError"       -> Returned(<<>>, "AI URL error")
      [] resp.kind = "TimeoutError"   -> Returned(<<>>, "AI request timed out")
      [] resp.kind = "undecodable"    -> Raised("UnicodeDecodeError")
      [] resp.kind = "IncompleteRead" -> Raised("IncompleteRead")
      [] OTHER                        -> SummarizeBody(resp.body, max_chars)

----------------------------------------------------------------------------
(* main and the platform posters                                           *)

\* a or b on strings
Or(a, b) == IF a # <<>> THEN a ELSE b

\* s.removesuffix(x)
RemoveSuffix(s, x) ==
    IF Len(x) <= Len(s) /\ SubSeq(s, Len(s) - Len(x) + 1, Len(s)) = x
    THEN Take(s, Len(s) - Len(x)) ELSE s

GitSsh   == <<103, 105, 116, 64, 103, 105, 116, 104, 117, 98, 46, 99, 111,
              109, 58>>                              \* "git@github.com:"
GitHttps == <<104, 116, 116, 112, 115, 58, 47, 47, 103, 105, 116, 104, 117,
              98, 46, 99, 111, 109, 47>>             \* "https://github.com/"
DotGit   == <<46, 103, 105, 116>>                    \* ".git"
ReleasesTag == <<47, 114, 101, 108, 101, 97, 115, 101, 115, 47, 116, 97,
                 103, 47>>                           \* "/releases/tag/"

\* repo_url_from_git(), given the output of git config (<<>> when git fails)
repo_url_from_git(remote) ==
    IF StartsWith(remote, GitSsh)
    THEN GitHttps \o RemoveSuffix(Drop(remote, Len(GitSsh)), DotGit)
    ELSE IF StartsWith(remote, GitHttps) THEN RemoveSuffix(remote, DotGit)
    ELSE <<>>

\* a network request as the log keeps it; result is "ok", "error" (the
\* request raised) or, for createSession, "no_session" (a reply without did
\* or accessJwt)
Call(req, result, payload) ==
    [req |-> req, result |-> result, payload |-> payload]

Exit(code) == /\ exit' = code
              /\ pc' = "done"

\* lines 361-363
CheckFlags ==
    /\ pc = "start"
    /\ IF args.mastodon_only /\ args.bluesky_only
       THEN /\ stderr' = Append(stderr, "Cannot use --mastodon-only and --bluesky-only together")
            /\ Exit("1")
       ELSE /\ pc' = "tag"
            /\ UNCHANGED <<stderr, exit>>
    /\ UNCHANGED <<args, environ, changelog, tag, release_url, highlights, ai,
                   message, posted, calls, stdout>>
    /\ UNCHANGED fnVars

\* lines 365-368; git is what tag_from_git() returns, called only when the
\* flag and RELEASE_TAG are both empty
ResolveTag ==
    /\ pc = "tag"
    /\ \E git \in IF Or(args.tag, environ.RELEASE_TAG) = <<>>
                  THEN {<<>>, <<118, 49, 46, 48>>} ELSE {<<>>} :
         LET t == Or(args.tag, Or(environ.RELEASE_TAG, git)) IN
         /\ tag' = t
         /\ IF t = <<>>
            THEN /\ stderr' = Append(stderr, "Release tag is required (use --tag or RELEASE_TAG)")
                 /\ Exit("1")
            ELSE /\ pc' = "url"
                 /\ UNCHANGED <<stderr, exit>>
    /\ UNCHANGED <<args, environ, changelog, release_url, highlights, ai,
                   message, posted, calls, stdout>>
    /\ UNCHANGED fnVars

\* lines 370-381; remote is the output of git config, read only when the flag
\* and RELEASE_URL are both empty
ResolveUrl ==
    /\ pc = "url"
    /\ \E remote \in IF Or(args.release_url, environ.RELEASE_URL) = <<>>
                     THEN { <<>>, GitSsh \o <<111, 47, 114>> \o DotGit,
                            GitHttps \o <<111, 47, 114>> }
                     ELSE {<<>>} :
         LET given == Or(args.release_url, environ.RELEASE_URL)
             repo  == repo_url_from_git(remote)
             u     == IF given = <<>> /\ repo # <<>>
                      THEN repo \o ReleasesTag \o tag ELSE given
         IN  /\ release_url' = u
             /\ IF u = <<>>
                THEN /\ stderr' = Append(stderr, "Release URL is required (use --release-url or RELEASE_URL)")
                     /\ Exit("1")
                ELSE /\ pc' = "extract"
                     /\ UNCHANGED <<stderr, exit>>
    /\ UNCHANGED <<args, environ, changelog, tag, highlights, ai, message,
                   posted, calls, stdout>>
    /\ UNCHANGED fnVars

\* line 383
ExtractHighlights ==
    /\ pc = "extract"
    /\ highlights' = extract_changelog_highlights(changelog, tag, 3)
    /\ pc' = "ai"
    /\ UNCHANGED <<args, environ, changelog, tag, release_url, ai, message,
                   posted, calls, stderr, stdout, exit>>
    /\ UNCHANGED fnVars

\* lines 385-387 when ai_summary_enabled() is false
SkipAiSummary ==
    /\ pc = "ai"
    /\ ~ai_summary_enabled(environ)
    /\ pc' = "build"
    /\ UNCHANGED <<args, environ, changelog, tag, release_url, highlights, ai,
                   message, posted, calls, stderr, stdout, exit>>
    /\ UNCHANGED fnVars

\* lines 393-395, after summarize_highlights_with_ai returned r
AfterAiSummary(r) ==
    /\ ai' = r
    /\ highlights' = IF r.text # <<>> THEN <<r.text>> ELSE highlights
    /\ stderr' = IF r.text = <<>> /\ ai_debug_enabled(environ)
                 THEN Append(stderr, "[announce-ai] fallback to changelog")
                 ELSE stderr
    /\ pc' = "build"
    /\ UNCHANGED exit

\* lines 387-395 when summarize_highlights_with_ai returns before any
\* request (lines 63-73)
AiSummaryUnavailable ==
    /\ pc = "ai"
    /\ ai_summary_enabled(environ)
    /\ highlights = <<>> \/ ~AiConfigured(environ)
    /\ AfterAiSummary(SummarizeEarly(environ, highlights))
    /\ UNCHANGED <<args, environ, changelog, tag, release_url, message, posted,
                   calls, stdout>>
    /\ UNCHANGED fnVars

\* lines 387-395 when summarize_highlights_with_ai sends its request
\* (lines 75-144); an exception it does not catch ends main
AiSummaryRequest(responses) ==
    /\ pc = "ai"
    /\ ai_summary_enabled(environ)
    /\ highlights # <<>> /\ AiConfigured(environ)
    /\ \E i \in 1..Len(responses) :
         LET r == SummarizeResponse(responses[i], 96) IN
         /\ calls' = Append(calls,
                Call("ai", IF responses[i].kind \in {"ok", "undecodable"}
                           THEN "ok" ELSE "error", <<>>))
         /\ IF r.outcome = "raised"
            THEN /\ ai' = r
                 /\ Exit("raised")
                 /\ UNCHANGED <<highlights, stderr>>
            ELSE AfterAiSummary(r)
    /\ UNCHANGED <<args, environ, changelog, tag, release_url, message, posted,
                   stdout>>
    /\ UNCHANGED fnVars

\* line 397
BuildMessage ==
    /\ pc = "build"
    /\ message' = build_announcement_message(args.project, tag, release_url,
                                             highlights, 300)
    /\ pc' = "dry_run"
    /\ UNCHANGED <<args, environ, changelog, tag, release_url, highlights, ai,
                   posted, calls, stderr, stdout, exit>>
    /\ UNCHANGED fnVars

\* Faulty variant of DryRun: the flag is ignored and the run goes on to post
DryRunIgnored ==
    /\ pc = "dry_run"
    /\ pc' = "mastodon"
    /\ UNCHANGED <<args, environ, changelog, tag, release_url, highlights, ai,
                   message, posted, calls, stderr, stdout, exit>>
    /\ UNCHANGED fnVars

\* lines 399-405
DryRun ==
    /\ pc = "dry_run"
    /\ IF args.dry_run
       THEN /\ stdout' = stdout
                \o << IF ai.text # <<>> THEN "[dry-run] source=ai"
                      ELSE "[dry-run] source=changelog" >>
                \o (IF ai_summary_enabled(environ) /\ ai.text = <<>>
                    THEN << IF ai.reason # "" THEN "[dry-run] ai_fallback_reason=<reason>"
                            ELSE "[dry-run] ai_fallback_reason=unknown" >>
                    ELSE <<>>)
                \o << "<message>" >>
            /\ Exit("0")
       ELSE /\ pc' = "mastodon"
            /\ UNCHANGED <<stdout, exit>>
    /\ UNCHANGED <<args, environ, changelog, tag, release_url, highlights, ai,
                   message, posted, calls, stderr>>
    /\ UNCHANGED fnVars

MastodonSelected ==
    /\ ~args.bluesky_only
    /\ environ.MASTODON_SERVER # <<>>
    /\ environ.MASTODON_ACCESS_TOKEN # <<>>

BlueskySelected ==
    /\ ~args.mastodon_only
    /\ environ.BLUESKY_USERNAME # <<>>
    /\ environ.BLUESKY_APP_PASSWORD # <<>>

\* lines 408-409 when Mastodon is not selected or not configured
SkipMastodon ==
    /\ pc = "mastodon"
    /\ ~MastodonSelected
    /\ pc' = "bluesky"
    /\ UNCHANGED <<args, environ, changelog, tag, release_url, highlights, ai,
                   message, posted, calls, stderr, stdout, exit>>
    /\ UNCHANGED fnVars

\* Faulty variant of PostMastodon: a failed post is swallowed and the run goes on
PostMastodonLenient ==
    /\ pc = "mastodon"
    /\ MastodonSelected
    /\ \E result \in {"ok", "error"} :
         /\ calls' = Append(calls, Call("mastodon", result, message))
         /\ posted' = IF result = "ok" THEN Append(posted, "mastodon") ELSE posted
    /\ pc' = "bluesky"
    /\ UNCHANGED <<args, environ, changelog, tag, release_url, highlights, ai,
                   message, stderr, stdout, exit>>
    /\ UNCHANGED fnVars

\* lines 408-411 with post_mastodon (147-154): the exception of a failed
\* request is not caught
PostMastodon ==
    /\ pc = "mastodon"
    /\ MastodonSelected
    /\ \E result \in {"ok", "error"} :
         /\ calls' = Append(calls, Call("mastodon", result, message))
         /\ IF result = "ok"
            THEN /\ posted' = Append(posted, "mastodon")
                 /\ pc' = "bluesky"
                 /\ UNCHANGED exit
            ELSE /\ Exit("raised")
                 /\ UNCHANGED posted
    /\ UNCHANGED <<args, environ, changelog, tag, release_url, highlights, ai,
                   message, stderr, stdout>>
    /\ UNCHANGED fnVars

\* lines 413-414 when Bluesky is not selected or not configured
SkipBluesky ==
    /\ pc = "bluesky"
    /\ ~BlueskySelected
    /\ pc' = "finish"
    /\ UNCHANGED <<args, environ, changelog, tag, release_url, highlights, ai,
                   message, posted, calls, stderr, stdout, exit>>
    /\ UNCHANGED fnVars

\* line 415 with post_bluesky lines 158-169: createSession
BlueskyCreateSession ==
    /\ pc = "bluesky"
    /\ BlueskySelected
    /\ \E result \in {"ok", "no_session", "error"} :
         /\ calls' = Append(calls, Call("createSession", result, <<>>))
         /\ IF result = "ok"
            THEN /\ pc' = "bluesky_record"
                 /\ UNCHANGED exit
            ELSE Exit("raised")
    /\ UNCHANGED <<args, environ, changelog, tag, release_url, highlights, ai,
                   message, posted, stderr, stdout>>
    /\ UNCHANGED fnVars

\* post_bluesky lines 171-185 and line 416: the facets and createRecord
BlueskyCreateRecord ==
    /\ pc = "bluesky_record"
    /\ \E result \in {"ok", "error"} :
         /\ calls' = Append(calls,
                Call("createRecord", result,
                     build_bluesky_facets(message, release_url)))
         /\ IF result = "ok"
            THEN /\ posted' = Append(posted, "bluesky")
                 /\ pc' = "finish"
                 /\ UNCHANGED exit
            ELSE /\ Exit("raised")
                 /\ UNCHANGED posted
    /\ UNCHANGED <<args, environ, changelog, tag, release_url, highlights, ai,
                   message, stderr, stdout>>
    /\ UNCHANGED fnVars

\* lines 418-426
Finish ==
    /\ pc = "finish"
    /\ IF posted = <<>>
       THEN /\ stderr' = Append(stderr, "No announcements posted (missing credentials or platform disabled).")
            /\ Exit("2")
            /\ UNCHANGED stdout
       ELSE /\ stdout' = Append(stdout, "Posted announcements to: <posted>")
            /\ Exit("0")
            /\ UNCHANGED stderr
    /\ UNCHANGED <<args, environ, changelog, tag, release_url, highlights, ai,
                   message, posted, calls>>
    /\ UNCHANGED fnVars

----------------------------------------------------------------------------
(* Values shared by the specifications.                                    *)

\* out is <<>> before the call and <<value>> after it returned
Pending    == <<>>

MainIdle ==
    /\ pc = "idle"
    /\ args = <<>>
    /\ environ = <<>>
    /\ changelog = <<>>
    /\ tag = <<>>
    /\ release_url = <<>>
    /\ highlights = <<>>
    /\ ai = <<>>
    /\ message = <<>>
    /\ posted = <<>>
    /\ calls = <<>>
    /\ stderr = <<>>
    /\ stdout = <<>>
    /\ exit = "running"

----------------------------------------------------------------------------
(* SpecMsg: build_announcement_message on drawn inputs.                    *)

MaxHighlights == 2      \* longest highlight list drawn
MaxLen        == 180    \* max_len is drawn from 0..MaxLen and the default

MsgProjects == { <<112>>,                                   \* "p"
                 <<112, 118, 101, 32, 116, 117, 105>> }     \* "pve tui"
MsgTags     == { <<118, 49>> }                              \* "v1"
MsgUrls     == { <<117>>,                                   \* "u"
                 <<104, 116, 116, 112, 115, 58, 47, 47, 120, 47, 121>> }
                                                            \* "https://x/y"
\* "ab"; 60 letters between blanks; 100 characters with blanks at (0-based)
\* 52 and 88, where the cuts to 53 and to 89 end; 93 letters
HighlightPool ==
    { <<97, 98>>,
      <<32>> \o Rep(104, 60) \o <<32>>,
      Rep(104, 52) \o <<32>> \o Rep(105, 35) \o <<32>> \o Rep(106, 11),
      Rep(104, 93) }

HighlightLists ==
    UNION { [1..n -> HighlightPool] : n \in 0..MaxHighlights }

MaxLens == (0..MaxLen) \cup {300}

InitMsg ==
    /\ fn = "build_announcement_message"
    /\ in \in [project : MsgProjects, tag : MsgTags, release_url : MsgUrls,
               highlights : HighlightLists, max_len : MaxLens]
    /\ out = Pending
    /\ MainIdle

CallBuildAnnouncementMessage ==
    /\ fn = "build_announcement_message"
    /\ out = Pending
    /\ out' = << build_announcement_message(in.project, in.tag, in.release_url,
                                            in.highlights, in.max_len) >>
    /\ UNCHANGED <<fn, in>>
    /\ UNCHANGED mainVars

NextMsg == CallBuildAnnouncementMessage

SpecMsg == InitMsg /\ [][NextMsg]_vars

MsgReturned == fn = "build_announcement_message" /\ out # Pending

MsgBase    == Base(in.project, in.tag)
MsgTailIn  == MsgTail(in.release_url)
MsgBare    == MsgBase \o <<32>> \o MsgTailIn
\* the highlights as the claims describe them: stripped, cut to at most 92
MsgCompact == [i \in 1..Len(in.highlights) |->
                 LET s == Strip(in.highlights[i]) IN
                 IF Len(s) <= 92 THEN s
                 ELSE RStrip(SubSeq(s, 1, 89)) \o Ellipsis]
\* the candidate built from the first k compacted highlights
MsgCandidate(k) ==
    MsgBase \o HighlightsHeader
            \o Join(<<10>>, [i \in 1..k |-> Bullet \o MsgCompact[i]])
            \o <<10>> \o MsgTailIn
\* the k in 1..n whose candidate fits
MsgFits == { k \in 1..Len(in.highlights) : Len(MsgCandidate(k)) <= in.max_len }
\* the first highlight cut to at most 56, as a candidate
MsgRetry ==
    LET c == MsgCompact[1]
        s == IF Len(c) <= 56 THEN c ELSE RStrip(SubSeq(c, 1, 53)) \o Ellipsis
    IN  MsgBase \o HighlightsHeader \o Bullet \o s \o <<10>> \o MsgTailIn
\* the result has a "Highlights:" block with a bullet line
HasHighlightsBlock(m) == Find(m, HighlightsHeader \o Bullet) >= 0

\* C1: the string returned by build_announcement_message is never longer
\* than max_len, whatever path produced it.
C1_LengthWithinMaxLen ==
    MsgReturned => Len(out[1]) <= in.max_len

\* C6: without highlights, when "{project} {tag} is out! {tail}" is longer
\* than max_len, the result is a proper prefix of the base followed by "...",
\* a space and the complete tail.
C6_TruncatedPrefixThenFullTail ==
    (MsgReturned /\ in.highlights = <<>> /\ Len(MsgBare) > in.max_len)
    => \E n \in 0..(Len(MsgBase) - 1) :
          out[1] = Take(MsgBase, n) \o Ellipsis \o <<32>> \o MsgTailIn

----------------------------------------------------------------------------
(* SpecFacets: build_bluesky_facets on drawn inputs.                       *)

MaxMsgLen == 4      \* longest message drawn

\* a (1 byte), #, blank, e-acute (2 bytes), euro sign (3), U+1F600 (4)
FacetAlphabet == {97, 35, 32, 233, 8364, 128512}

FacetMessages == UNION { [1..n -> FacetAlphabet] : n \in 0..MaxMsgLen }

\* "", "a", "#a", "e-acute a", "euro", "a U+1F600", "a#"
FacetUrls == { <<>>, <<97>>, <<35, 97>>, <<233, 97>>, <<8364>>,
               <<97, 128512>>, <<97, 35>> }

InitFacets ==
    /\ fn = "build_bluesky_facets"
    /\ in \in [message : FacetMessages, release_url : FacetUrls]
    /\ out = Pending
    /\ MainIdle

CallBuildBlueskyFacets ==
    /\ fn = "build_bluesky_facets"
    /\ out = Pending
    /\ out' = << build_bluesky_facets(in.message, in.release_url) >>
    /\ UNCHANGED <<fn, in>>
    /\ UNCHANGED mainVars

NextFacets == CallBuildBlueskyFacets

SpecFacets == InitFacets /\ [][NextFacets]_vars

FacetsReturned == fn = "build_bluesky_facets" /\ out # Pending

\* bytes.decode("utf-8") of a well-formed encoding; <<-1>> marks bytes that
\* are not the encoding of a string
RECURSIVE Utf8Decode(_)
Utf8Decode(b) ==
    LET Cont(k) == k <= Len(b) /\ b[k] \in 128..191
        Rest(n, cp) ==
            LET r == Utf8Decode(SubSeq(b, n + 1, Len(b))) IN
            IF r = <<-1>> THEN <<-1>> ELSE <<cp>> \o r
    IN  IF b = <<>> THEN <<>>
        ELSE IF b[1] < 128 THEN Rest(1, b[1])
        ELSE IF b[1] \in 194..223 /\ Cont(2)
        THEN Rest(2, (b[1] - 192) * 64 + (b[2] - 128))
        ELSE IF b[1] \in 224..239 /\ Cont(2) /\ Cont(3)
        THEN Rest(3, (b[1] - 224) * 4096 + (b[2] - 128) * 64 + (b[3] - 128))
        ELSE IF b[1] \in 240..244 /\ Cont(2) /\ Cont(3) /\ Cont(4)
        THEN Rest(4, (b[1] - 240) * 262144 + (b[2] - 128) * 4096
                     + (b[3] - 128) * 64 + (b[4] - 128))
        ELSE <<-1>>

FacetBytes == Utf8Encode(in.message)
\* the text a facet's byte range names, and the text before it
FacetText(f)   == Utf8Decode(SubSeq(FacetBytes, f.byteStart + 1, f.byteEnd))
FacetBefore(f) == Utf8Decode(SubSeq(FacetBytes, 1, f.byteStart))
FacetsOf(t) == { k \in 1..Len(out[1]) : out[1][k].type = t }
\* the 0-based positions where the release URL occurs in the message
UrlPositions ==
    { i \in 0..Len(in.message) : OccursAt(in.message, in.release_url, i) }
\* the 0-based positions of a '#' followed by a character of [A-Za-z0-9_]
HashtagStarts ==
    { i \in 0..(Len(in.message) - 2) :
        in.message[i + 1] = 35 /\ in.message[i + 2] \in WordChars }

\* C2: every facet has 0 <= byteStart < byteEnd <= the length of the UTF-8
\* encoding of the message, and no two facets overlap.
C2_FacetsInBoundsAndDisjoint ==
    FacetsReturned
    => /\ \A k \in 1..Len(out[1]) :
            /\ 0 <= out[1][k].byteStart
            /\ out[1][k].byteStart < out[1][k].byteEnd
            /\ out[1][k].byteEnd <= Len(FacetBytes)
       /\ \A j, k \in 1..Len(out[1]) :
            j # k => \/ out[1][j].byteEnd <= out[1][k].byteStart
                     \/ out[1][k].byteEnd <= out[1][j].byteStart

\* C7: when the release URL occurs in the message, the link facet's bytes
\* decode to the URL and start where its first occurrence starts; each hashtag
\* match has a tag facet whose bytes decode to '#' and the facet's tag, at the
\* match's place; the text before a facet decodes to the characters before it,
\* whatever their byte widths.
C7_FacetBytesDecodeToSpan ==
    FacetsReturned
    => /\ (in.release_url # <<>> /\ UrlPositions # {})
          => /\ Cardinality(FacetsOf("link")) = 1
             /\ \A k \in FacetsOf("link") :
                  /\ FacetText(out[1][k]) = in.release_url
                  /\ out[1][k].value = in.release_url
                  /\ FacetBefore(out[1][k]) =
                       Take(in.message,
                            CHOOSE i \in UrlPositions :
                               \A j \in UrlPositions : i <= j)
       /\ \A k \in FacetsOf("tag") :
            /\ FacetText(out[1][k]) = <<35>> \o out[1][k].value
            /\ Len(FacetBefore(out[1][k])) \in HashtagStarts
            /\ FacetBefore(out[1][k]) =
                 Take(in.message, Len(FacetBefore(out[1][k])))
       /\ \A i \in HashtagStarts :
            \E k \in FacetsOf("tag") :
               /\ FacetBefore(out[1][k]) = Take(in.message, i)
               /\ out[1][k].value # <<>>
               /\ \A c \in 1..Len(out[1][k].value) :
                     out[1][k].value[c] \in WordChars
               /\ (i + 1 + Len(out[1][k].value) < Len(in.message)
                   => in.message[i + 2 + Len(out[1][k].value)] \notin WordChars)

\* a link facet and a tag facet, both after a 4-byte character
C7_Witness ==
    /\ FacetsReturned
    /\ FacetsOf("link") # {}
    /\ FacetsOf("tag") # {}
    /\ Len(in.message) >= 3
    /\ in.message[1] = 128512
    /\ \A k \in 1..Len(out[1]) : out[1][k].byteStart >= 4
    /\ \E k \in FacetsOf("tag") : out[1][k].byteStart # Len(FacetBefore(out[1][k]))

----------------------------------------------------------------------------
(* SpecChangelog: extract_changelog_highlights on drawn inputs.            *)

MaxLines == 4       \* most lines in a drawn changelog

\* "## [1.0]", "## [0.9] - 2024", "- a", "  - **b** `c`", "- [d](u)",
\* "- [ ](u)", "##", "[1.0] x", "### Added"
ChangelogLines ==
    { <<35, 35, 32, 91, 49, 46, 48, 93>>,
      <<35, 35, 32, 91, 48, 46, 57, 93, 32, 45, 32, 50, 48, 50, 52>>,
      <<45, 32, 97>>,
      <<32, 32, 45, 32, 42, 42, 98, 42, 42, 32, 96, 99, 96>>,
      <<45, 32, 91, 100, 93, 40, 117, 41>>,
      <<45, 32, 91, 32, 93, 40, 117, 41>>,
      <<35, 35>>,
      <<91, 49, 46, 48, 93, 32, 120>>,
      <<35, 35, 35, 32, 65, 100, 100, 101, 100>> }

\* every line ends with a newline, but for the last line of a text drawn
\* without one
ChangelogTexts ==
    LET Lines == UNION { [1..n -> ChangelogLines] : n \in 0..MaxLines } IN
    { Join(<<10>>, ls) \o nl : ls \in Lines, nl \in {<<>>, <<10>>} }

\* "v1.0", "1.0", "v0.9", "v"
ChangelogTags == { <<118, 49, 46, 48>>, <<49, 46, 48>>, <<118, 48, 46, 57>>,
                   <<118>> }

InitChangelog ==
    /\ fn = "extract_changelog_highlights"
    /\ in \in [file : [readable : {TRUE}, content : ChangelogTexts]
                        \cup {[readable |-> FALSE, content |-> <<>>]},
               tag : ChangelogTags,
               max_items : 1..3]
    /\ out = Pending
    /\ MainIdle

CallExtractChangelogHighlights ==
    /\ fn = "extract_changelog_highlights"
    /\ out = Pending
    /\ out' = << extract_changelog_highlights(in.file, in.tag, in.max_items) >>
    /\ UNCHANGED <<fn, in>>
    /\ UNCHANGED mainVars

NextChangelog == CallExtractChangelogHighlights

SpecChangelog == InitChangelog /\ [][NextChangelog]_vars

ExtractReturned == fn = "extract_changelog_highlights" /\ out # Pending

\* the text as lines, a line ending at each newline
RECURSIVE LinesOf(_)
LinesOf(c) ==
    IF c = <<>> THEN <<>>
    ELSE LET e == RunEnd(c, 0, {10}, TRUE) IN
         <<Take(c, e)>> \o LinesOf(Drop(c, e + 1))

\* a line "## [..." (blanks or tabs after the ##), and one "## [<v>]..."
IsHeadingLine(l) ==
    LET e == RunEnd(l, 2, {32, 9}, FALSE) IN
    StartsWith(l, <<35, 35>>) /\ e > 2 /\ OccursAt(l, <<91>>, e)
IsHeadingLineFor(l, v) ==
    LET e == RunEnd(l, 2, {32, 9}, FALSE) IN
    StartsWith(l, <<35, 35>>) /\ e > 2 /\ OccursAt(l, <<91>> \o v \o <<93>>, e)

\* the cleaned text of a bullet line, <<>> for any other line
BulletText(l) ==
    IF StartsWith(Strip(l), <<45, 32>>)
    THEN CleanMarkdown(Strip(Drop(Strip(l), 2))) ELSE <<>>

\* the non-empty bullet texts of lines[i..j], in order
RECURSIVE BulletsIn(_, _, _)
BulletsIn(lines, i, j) ==
    IF i > j THEN <<>>
    ELSE IF BulletText(lines[i]) # <<>>
    THEN <<BulletText(lines[i])>> \o BulletsIn(lines, i + 1, j)
    ELSE BulletsIn(lines, i + 1, j)

\* C10: the result is the first min(max_items, number available) non-empty
\* bullets, in file order, between the heading line of the version and the
\* next heading line or the end of the text: nothing from another section,
\* never more than max_items, and nothing when the version has no heading.
C10_BulletsOfVersionSection ==
    (ExtractReturned /\ in.file.readable)
    => LET v     == VersionOf(in.tag)
           lines == LinesOf(in.file.content)
           heads == { i \in 1..Len(lines) : IsHeadingLineFor(lines[i], v) }
           h     == CHOOSE i \in heads : \A j \in heads : i <= j
           nexts == { i \in (h + 1)..Len(lines) : IsHeadingLine(lines[i]) }
           last  == IF nexts = {} THEN Len(lines)
                    ELSE (CHOOSE i \in nexts : \A j \in nexts : i <= j) - 1
           avail == BulletsIn(lines, h + 1, last)
       IN  IF v = <<>> \/ heads = {} THEN out[1] = <<>>
           ELSE out[1] = Take(avail, Min(in.max_items, Len(avail)))

----------------------------------------------------------------------------
(* Spec: one run of main.                                                  *)

TagV10 == <<118, 49, 46, 48>>                                \* "v1.0"
UrlXY  == <<104, 116, 116, 112, 115, 58, 47, 47, 120, 47, 121>>
                                                             \* "https://x/y"

\* the command lines drawn
MainArgs ==
    [tag : {<<>>, TagV10}, release_url : {<<>>, UrlXY},
     project : {<<112, 118, 101, 116, 117, 105>>},           \* "pvetui"
     dry_run : BOOLEAN, mastodon_only : BOOLEAN, bluesky_only : BOOLEAN]

\* the environments drawn: each variable unset ("") or set
MainEnvirons ==
    [RELEASE_TAG : {<<>>, TagV10},
     RELEASE_URL : {<<>>, UrlXY},
     MASTODON_SERVER : {<<>>, <<104, 116, 116, 112, 115, 58, 47, 47, 109, 47>>},
     MASTODON_ACCESS_TOKEN : {<<>>, <<116>>},
     BLUESKY_USERNAME : {<<>>, <<117>>},
     BLUESKY_APP_PASSWORD : {<<>>, <<112>>},
     ANNOUNCE_AI_ENABLED : {<<>>, <<32, 84, 114, 117, 101, 32>>},   \* " True "
     ANNOUNCE_AI_DEBUG : {<<>>, <<49>>},
     ANNOUNCE_AI_BASE_URL : {<<>>, <<104, 116, 116, 112, 115, 58, 47, 47, 97,
                                     105, 47, 118, 49, 47>>},
     ANNOUNCE_AI_MODEL : {<<>>, <<109>>},
     ANNOUNCE_AI_API_KEY : {<<>>, <<107>>}]

\* the changelog files drawn: unreadable, or
\* "## [1.0]\n- a\n- **b** `c`\n## [0.9]\n- old\n"
MainChangelogs ==
    { [readable |-> FALSE, content |-> <<>>],
      [readable |-> TRUE,
       content |-> <<35, 35, 32, 91, 49, 46, 48, 93, 10, 45, 32, 97, 10,
                     45, 32, 42, 42, 98, 42, 42, 32, 96, 99, 96, 10,
                     35, 35, 32, 91, 48, 46, 57, 93, 10, 45, 32, 111, 108,
                     100, 10>>] }

Content(x) == JDict([choices |-> JList(<<JDict([message |->
                       JDict([content |-> x])])>>)])

\* the outcomes of the chat-completion request drawn
AiResponses ==
    << [kind |-> "HTTPError",      body |-> JNull],
       [kind |-> "URLError",       body |-> JNull],
       [kind |-> "TimeoutError",   body |-> JNull],
       [kind |-> "ok", body |-> [t |-> "notjson", v |-> <<>>]],
       [kind |-> "ok", body |-> JDict(<<>>)],
       [kind |-> "ok", body |-> JDict([error |-> JStr(<<120>>)])],
       [kind |-> "ok", body |-> JDict([choices |-> JNull])],
       [kind |-> "ok", body |-> JDict([choices |-> JList(<<>>)])],
       [kind |-> "ok", body |-> JDict([choices |-> JList(<<JDict(<<>>)>>)])],
       [kind |-> "ok", body |-> Content(JNull)],
       [kind |-> "ok", body |-> Content(JStr(<<>>))],
       [kind |-> "ok", body |-> Content(JStr(<<32, 10>>))],
       \* "ok **fix** `x`\n y"
       [kind |-> "ok", body |-> Content(JStr(<<111, 107, 32, 42, 42, 102, 105,
                                    120, 42, 42, 32, 96, 120, 96, 10, 32, 121>>))],
       \* 92 letters, a blank, 7 letters: cut at 93 = 96 - 3
       [kind |-> "ok", body |-> Content(JStr(Rep(97, 92) \o <<32>> \o Rep(98, 7)))],
       \* the JSON texts [], null and "x"
       [kind |-> "ok", body |-> JList(<<>>)],
       [kind |-> "ok", body |-> JNull],
       [kind |-> "ok", body |-> JStr(<<120>>)],
       [kind |-> "ok", body |-> JDict([choices |-> JList(<<JNull>>)])],
       [kind |-> "ok", body |-> JDict([choices |-> JList(<<JStr(<<120>>)>>)])],
       [kind |-> "ok", body |-> JDict([choices |-> JStr(<<120>>)])],
       [kind |-> "ok", body |-> JDict([choices |-> JNum(1)])],
       [kind |-> "ok", body |-> JDict([choices |-> JDict([a |-> JNull])])],
       [kind |-> "ok", body |-> JDict([choices |->
                                   JList(<<JDict([message |-> JStr(<<120>>)])>>)])],
       [kind |-> "ok", body |-> Content(JNum(5))],
       [kind |-> "ok", body |-> Content(JList(<<JStr(<<120>>)>>))],
       \* "\"'\" '": only quotes and blanks
       [kind |-> "ok", body |-> Content(JStr(<<34, 39, 34, 32, 39>>))],
       [kind |-> "undecodable",    body |-> JNull],
       [kind |-> "IncompleteRead", body |-> JNull] >>

Init ==
    /\ fn = "main"
    /\ in = <<>>
    /\ out = Pending
    /\ pc = "start"
    /\ args \in MainArgs
    /\ environ \in MainEnvirons
    \* a flag and its environment variable are not both set: the flag wins
    \* (lines 365 and 370), as in the run with the variable unset
    /\ args.tag = <<>> \/ environ.RELEASE_TAG = <<>>
    /\ args.release_url = <<>> \/ environ.RELEASE_URL = <<>>
    /\ changelog \in MainChangelogs
    /\ tag = <<>>
    /\ release_url = <<>>
    /\ highlights = <<>>
    /\ ai = [outcome |-> "none", text |-> <<>>, reason |-> ""]
    /\ message = <<>>
    /\ posted = <<>>
    /\ calls = <<>>
    /\ stderr = <<>>
    /\ stdout = <<>>
    /\ exit = "running"

Next ==
    \/ CheckFlags
    \/ ResolveTag
    \/ ResolveUrl
    \/ ExtractHighlights
    \/ SkipAiSummary
    \/ AiSummaryUnavailable
    \/ AiSummaryRequest(AiResponses)
    \/ BuildMessage
    \/ DryRun
    \/ SkipMastodon
    \/ PostMastodon
    \/ SkipBluesky
    \/ BlueskyCreateSession
    \/ BlueskyCreateRecord
    \/ Finish

Spec == Init /\ [][Next]_vars

CallsOf(reqs) == { i \in 1..Len(calls) : calls[i].req \in reqs }
PlatformReqs  == {"mastodon", "createSession", "createRecord"}
BlueskyReqs   == {"createSession", "createRecord"}
PostedLine    == "Posted announcements to: <posted>"
Printed(line) == \E i \in 1..Len(stdout) : stdout[i] = line

C4_ConfigErrorBeforeAnyNetworkCall ==
    exit \in {"1", "2"} => calls = <<>>

\* C5: summarize_highlights_with_ai never raises, and returns either a
\* non-empty text with an empty reason or an empty text with a non-empty
\* reason.
C5_SummarizerReturnsTextOrReason ==
    /\ ai.outcome # "raised"
    /\ ai.outcome = "returned"
       => \/ ai.text # <<>> /\ ai.reason = ""
          \/ ai.text = <<>> /\ ai.reason # ""

\* C8: Mastodon is posted before Bluesky is attempted; a failed Mastodon
\* post ends the run with an error and without any Bluesky request; a failed
\* Bluesky request after a delivered Mastodon post ends the run with an
\* error, the Mastodon post staying delivered and nothing being sent after
\* the failure; exit code 0 with the "Posted announcements to" line is reached
\* only when a platform post was attempted and every attempted one succeeded.
C8_MastodonFirstThenBluesky ==
    LET mast == CallsOf({"mastodon"})
        blue == CallsOf(BlueskyReqs)
        Failed(i) == calls[i].result # "ok"
    IN  /\ \A i \in mast, j \in blue : i < j
        /\ (MastodonSelected /\ blue # {})
           => \E i \in mast : ~Failed(i)
        /\ (\E i \in mast : Failed(i))
           => (blue = {} /\ exit = "raised" /\ ~Printed(PostedLine))
        /\ \A j \in blue :
             Failed(j) => /\ exit = "raised"
                          /\ j = Len(calls)
                          /\ ~Printed(PostedLine)
                          /\ MastodonSelected
                             => \E i \in mast : i < j /\ ~Failed(i)
        /\ Cardinality(mast) <= 1
        /\ Printed(PostedLine)
           => /\ exit = "0"
              /\ CallsOf(PlatformReqs) # {}
              /\ \A i \in CallsOf(PlatformReqs) : ~Failed(i)
        /\ (exit = "0" /\ ~args.dry_run) => Printed(PostedLine)

\* both platforms selected, the Mastodon post delivered, createRecord failed
C8_Witness ==
    /\ MastodonSelected
    /\ BlueskySelected
    /\ ~args.dry_run
    /\ exit = "raised"
    /\ \E i \in CallsOf({"mastodon"}) : calls[i].result = "ok"
    /\ \E j \in CallsOf({"createRecord"}) : calls[j].result = "error"

============================================================================
